---- MODULE Spec2Model ----
(***************************************************************************)
(* KdTreeAttributesEncoder::EncodeAttributes                               *)
(* (src/compression/attributes/kd_tree_attributes_encoder.cc) as a state   *)
(* machine: the encoder's configuration, the source attribute, the output  *)
(* buffer, and one action per call.  The point codecs and the decoder are  *)
(* not part of that file; they are modelled from spec.md section 4.3.      *)
(***************************************************************************)
EXTENDS Integers, Sequences, FiniteSets, TLC

VARIABLES
  num_attributes,     \* AttributesEncoder::num_attributes()
  components_count,   \* att->components_count()
  data_type,          \* att->data_type()
  speed,              \* encoder()->options()->GetSpeed()
  quantization_bits,  \* GetAttributeInt(att_id, "quantization_bits", -1)
  att_values,         \* the attribute's stored values (3-vectors)
  mapped_index,       \* point index -> attribute value index
  out_buffer,         \* the EncoderBuffer, a sequence of bytes
  base,               \* size of out_buffer when the call started
  pc,                 \* "ready" | "done" | "decoded"
  ret,                \* return value of the last EncodeAttributes call
  codec,              \* the point codec the last call invoked, if any
  int_points,         \* the working vector after the last call
  prev,               \* outcome of the first of two calls, or None
  decoded             \* outcome of decoding the stream, or None

vars == <<num_attributes, components_count, data_type, speed,
          quantization_bits, att_values, mapped_index, out_buffer, base, pc,
          ret, codec, int_points, prev, decoded>>

(***************************************************************************)
(* Bounds of the model.                                                    *)
(***************************************************************************)
MaxAttributes == 2   \* attributes attached to the encoder: 0..MaxAttributes
MaxPoints == 4       \* points of the point cloud: 0..MaxPoints
MaxQuantBits == 2    \* configured quantization bits: -1..MaxQuantBits
BitWidth == 2        \* declared bit width of an integer coordinate
Wraps == 1           \* encoding speeds are taken around 256*k, |k| <= Wraps
DispatchPoints == 2  \* points of the point cloud in the dispatch runs

(***************************************************************************)
(* Input domains.                                                          *)
(***************************************************************************)
DataTypes == {"DT_FLOAT32", "DT_UINT32", "DT_INT32"}
ComponentCounts == {2, 3, 4}
Speeds == UNION {{256 * k + s : s \in -1 .. 11} : k \in -Wraps .. Wraps}
ValidSpeeds == 0 .. 10
QuantizationSettings == -1 .. MaxQuantBits

\* The points the attribute's values are drawn from.
PointPool == {<<0, 0, 0>>, <<1, 0, 0>>, <<0, 1, 0>>, <<1, 1, 1>>, <<3, 2, 0>>}
DispatchPool == {<<0, 0, 0>>, <<3, 1, 2>>}

SeqsUpTo(S, n) == UNION {[1 .. k -> S] : k \in 0 .. n}

Identity(n) == [i \in 1 .. n |-> i]
Reversed(n) == [i \in 1 .. n |-> n + 1 - i]

num_points == Len(mapped_index)

(***************************************************************************)
(* The output buffer's primitives (EncoderBuffer::Encode): a fixed-width   *)
(* integer is appended least significant byte first.  A point count is not *)
(* negative and stays far below 2^32, so the cast to uint32_t keeps it.    *)
(***************************************************************************)
EncodeUInt8(v) == <<v % 256>>

EncodeUInt32(v) == [i \in 1 .. 4 |-> (v \div (256 ^ (i - 1))) % 256]

DecodeUInt32(b) == b[1] + 256 * b[2] + 65536 * b[3] + 16777216 * b[4]

(***************************************************************************)
(* The integer spatial codec (spec.md 4.3).  A node is a working subset    *)
(* pts inside the box that starts at lo and spans 2^bits[a] on axis a.     *)
(* The payload is the sequence of fields the codec writes; each field (a   *)
(* count or a coordinate offset) is held in one element of the buffer.     *)
(***************************************************************************)
Axes == 1 .. 3

DirectThreshold == 2

RefinedSplitLevel == 6

Origin == [a \in Axes |-> 0]

FullRange(w) == [a \in Axes |-> w]

Exhausted(bits) == \A a \in Axes : bits[a] = 0

\* The split axis: levels below RefinedSplitLevel take the lowest axis that
\* still has range, the others the axis with the greatest range, the
\* lowest index winning a tie.
SplitAxis(bits, level) ==
  IF level < RefinedSplitLevel
    THEN CHOOSE a \in Axes : bits[a] > 0 /\ \A b \in Axes : bits[b] > 0 => a <= b
    ELSE CHOOSE a \in Axes :
           \A b \in Axes : bits[a] > bits[b] \/ (bits[a] = bits[b] /\ a <= b)

SplitValue(lo, bits, a) == lo[a] + 2 ^ (bits[a] - 1)

LowerHalf(pts, a, split) == SelectSeq(pts, LAMBDA p : p[a] < split)

UpperHalf(pts, a, split) == SelectSeq(pts, LAMBDA p : p[a] >= split)

\* One point written directly: its offset inside the box on every axis that
\* still has range.
DirectPoint(p, lo, bits) ==
  LET axes == SelectSeq(<<1, 2, 3>>, LAMBDA a : bits[a] > 0)
  IN  [k \in 1 .. Len(axes) |-> p[axes[k]] - lo[axes[k]]]

RECURSIVE DirectFields(_, _, _)
DirectFields(pts, lo, bits) ==
  IF pts = <<>> THEN <<>>
  ELSE DirectPoint(Head(pts), lo, bits) \o DirectFields(Tail(pts), lo, bits)

RECURSIVE KdEncode(_, _, _, _)
KdEncode(pts, lo, bits, level) ==
  IF Len(pts) = 0 \/ Exhausted(bits) THEN <<>>
  ELSE IF Len(pts) <= DirectThreshold THEN DirectFields(pts, lo, bits)
  ELSE LET a == SplitAxis(bits, level)
           split == SplitValue(lo, bits, a)
           rest == [bits EXCEPT ![a] = @ - 1]
           lower == LowerHalf(pts, a, split)
           upper == UpperHalf(pts, a, split)
       IN  <<Len(lower)>> \o KdEncode(lower, lo, rest, level)
                          \o KdEncode(upper, [lo EXCEPT ![a] = split], rest, level)

\* The working copy as the recursion leaves it: partitioned in place.
RECURSIVE KdReorder(_, _, _, _)
KdReorder(pts, lo, bits, level) ==
  IF Len(pts) <= DirectThreshold \/ Exhausted(bits) THEN pts
  ELSE LET a == SplitAxis(bits, level)
           split == SplitValue(lo, bits, a)
           rest == [bits EXCEPT ![a] = @ - 1]
       IN  KdReorder(LowerHalf(pts, a, split), lo, rest, level)
             \o KdReorder(UpperHalf(pts, a, split), [lo EXCEPT ![a] = split], rest, level)

(***************************************************************************)
(* The mirror recursion of the decoder (spec.md 4.3): the same split axis  *)
(* and split value at every node, the counts and the directly written      *)
(* coordinates read back in the order they were written.                   *)
(***************************************************************************)
Corrupt == [ok |-> FALSE, pts |-> <<>>, rest |-> <<>>]

FieldsPerPoint(bits) == Cardinality({a \in Axes : bits[a] > 0})

\* The point whose direct fields are f, the inverse of DirectPoint.
ReadPoint(f, lo, bits) ==
  [a \in Axes |->
     IF bits[a] > 0
       THEN lo[a] + f[Cardinality({b \in Axes : b <= a /\ bits[b] > 0})]
       ELSE lo[a]]

RECURSIVE ReadDirect(_, _, _, _)
ReadDirect(fields, n, lo, bits) ==
  IF n = 0 THEN [ok |-> TRUE, pts |-> <<>>, rest |-> fields]
  ELSE IF Len(fields) < FieldsPerPoint(bits) THEN Corrupt
  ELSE LET k == FieldsPerPoint(bits)
           more == ReadDirect(SubSeq(fields, k + 1, Len(fields)), n - 1, lo, bits)
       IN  IF more.ok
             THEN [more EXCEPT !.pts = <<ReadPoint(SubSeq(fields, 1, k), lo, bits)>> \o @]
             ELSE Corrupt

RECURSIVE KdDecode(_, _, _, _, _)
KdDecode(fields, n, lo, bits, level) ==
  IF n = 0 THEN [ok |-> TRUE, pts |-> <<>>, rest |-> fields]
  ELSE IF Exhausted(bits)
    THEN [ok |-> TRUE, pts |-> [i \in 1 .. n |-> lo], rest |-> fields]
  ELSE IF n <= DirectThreshold THEN ReadDirect(fields, n, lo, bits)
  ELSE IF fields = <<>> \/ Head(fields) > n THEN Corrupt
  ELSE LET a == SplitAxis(bits, level)
           split == SplitValue(lo, bits, a)
           rest == [bits EXCEPT ![a] = @ - 1]
           lower == KdDecode(Tail(fields), Head(fields), lo, rest, level)
           upper == IF lower.ok
                      THEN KdDecode(lower.rest, n - Head(fields),
                                    [lo EXCEPT ![a] = split], rest, level)
                      ELSE Corrupt
       IN  IF upper.ok
             THEN [ok |-> TRUE, pts |-> lower.pts \o upper.pts, rest |-> upper.rest]
             ELSE Corrupt

(***************************************************************************)
(* The two point encoders EncodeAttributes hands the points to.            *)
(***************************************************************************)
LevelInRange(level) == level \in 0 .. 10

\* IntegerPointsKdTreeEncoder<Point3ui, level>::EncodePoints(begin, end,
\* out_buffer): writes the payload to the output buffer and partitions the
\* vector it was given.
EncodePoints(level, pts) ==
  [ok |-> TRUE,
   payload |-> KdEncode(pts, Origin, FullRange(BitWidth), level),
   reordered |-> KdReorder(pts, Origin, FullRange(BitWidth), level)]

\* FloatPointsKdTreeEncoder(quantization_bits, level).EncodePointCloud(
\* begin, end) and then buffer(): the quantized points go through the
\* integer spatial encoder of that level into the encoder's own buffer; a
\* level outside 0..10 is refused.
EncodePointCloud(qbits, level, pts) ==
  IF LevelInRange(level)
    THEN [ok |-> TRUE,
          buffer |-> <<qbits>> \o KdEncode(pts, Origin, FullRange(qbits), level)]
    ELSE [ok |-> FALSE, buffer |-> <<>>]

(***************************************************************************)
(* KdTreeAttributesEncoder::EncodeAttributes, kd_tree_attributes_encoder.cc *)
(* lines 73-205.                                                           *)
(***************************************************************************)
kKdTreeQuantizationEncoding == 0

kKdTreeIntegerEncoding == 1


\* The check weakened to "at least one attribute".
WrongAttributeCount_AtLeastOne == num_attributes < 1

\* if (num_attributes() != 1) return false;
WrongAttributeCount == num_attributes # 1

\* if (att->components_count() != 3) return false;
WrongComponentsCount == components_count # 3

\* const uint8_t compression_level = 10 - encoder()->options()->GetSpeed();
compression_level == (10 - speed) % 256

IsFloatAttribute == data_type = "DT_FLOAT32"


\* The signed 32-bit type taken for the unsigned one.
IsUIntAttribute_AnyInt32 == data_type \in {"DT_UINT32", "DT_INT32"}

IsUIntAttribute == data_type = "DT_UINT32"


\* The check with "<" for "<=": zero bits pass.
QuantizationMissing_ZeroPasses == quantization_bits < 0

\* if (quantization_bits <= 0) return false;
QuantizationMissing == quantization_bits <= 0

\* PointAttributeVectorIterator::operator*, for the iterator at point i.
IteratorValue(i) == att_values[mapped_index[i]]


\* The range cut one short: [it, it + num_points - 1).
PointRange_OneShort == [i \in 1 .. num_points - 1 |-> IteratorValue(i)]

\* The range [it, it + num_points) both paths read.
PointRange == [i \in 1 .. num_points |-> IteratorValue(i)]


\* The three header fields, appended in this order.
Header(method) ==
  EncodeUInt8(method) \o EncodeUInt8(compression_level) \o EncodeUInt32(num_points)

None == [kind |-> "none"]

NoCodec == None

Outcome(r, bytes, c, working) ==
  [ret |-> r, appended |-> bytes, codec |-> c, int_points |-> working]

Rejected == Outcome(FALSE, <<>>, NoCodec, <<>>)

\* The encoder kept across calls, its buffer never cleared: the second call
\* copies the first call's payload too.
PointsEncoderBuffer_Kept(enc) ==
  IF prev # None /\ Len(prev.appended) > 6
    THEN SubSeq(prev.appended, 7, Len(prev.appended)) \o enc.buffer
    ELSE enc.buffer

\* points_encoder is a local of the call: buffer() holds what this call's
\* EncodePointCloud wrote, and nothing else.
PointsEncoderBuffer(enc) == enc.buffer

\* The result of EncodePointCloud not looked at.
FloatPath_ResultIgnored ==
  IF quantization_bits <= 0 THEN Rejected
  ELSE LET enc == EncodePointCloud(quantization_bits, compression_level, PointRange)
       IN  Outcome(TRUE, Header(kKdTreeQuantizationEncoding) \o enc.buffer,
                   [kind |-> "float", level |-> compression_level,
                    qbits |-> quantization_bits, input |-> PointRange], <<>>)

\* Lines 83-103: the payload is copied from the encoder's buffer after
\* EncodePointCloud has returned true.
FloatPath ==
  IF QuantizationMissing THEN Rejected
  ELSE LET enc == EncodePointCloud(quantization_bits, compression_level, PointRange)
           used == [kind |-> "float", level |-> compression_level,
                    qbits |-> quantization_bits, input |-> PointRange]
       IN  IF ~enc.ok
             THEN Outcome(FALSE, Header(kKdTreeQuantizationEncoding), used, <<>>)
             ELSE Outcome(TRUE, Header(kKdTreeQuantizationEncoding)
                                  \o PointsEncoderBuffer(enc), used, <<>>)

\* Case 9 pasted from case 10 with its template argument left at 10.
SwitchCase_Pasted ==
  IF (10 - speed) % 256 = 9 THEN 10
  ELSE IF (10 - speed) % 256 \in 0 .. 10 THEN (10 - speed) % 256 ELSE -1

\* Lines 118-199: case L runs IntegerPointsKdTreeEncoder<Point3ui, L>, the
\* default returns false.
SwitchCase == IF compression_level \in 0 .. 10 THEN compression_level ELSE -1

\* Lines 104-199: the values are first stored in the vector int_points, and
\* the encoder of the switch's case writes straight to out_buffer.
IntegerPath ==
  LET copy == PointRange
  IN  IF SwitchCase = -1
        THEN Outcome(FALSE, Header(kKdTreeIntegerEncoding), NoCodec, copy)
        ELSE LET enc == EncodePoints(SwitchCase, copy)
             IN  Outcome(enc.ok, Header(kKdTreeIntegerEncoding) \o enc.payload,
                         [kind |-> "integer", level |-> SwitchCase, input |-> copy],
                         enc.reordered)

EncodeOutcome ==
  IF WrongAttributeCount THEN Rejected
  ELSE IF WrongComponentsCount THEN Rejected
  ELSE IF IsFloatAttribute THEN FloatPath
  ELSE IF IsUIntAttribute THEN IntegerPath
  ELSE Rejected


\* The encoder handed the attribute's own storage: the values the points
\* map to end up in the order the recursion left them.
AttributeValuesAfter_Aliased(r) ==
  IF r.codec.kind = "integer"
    THEN [v \in 1 .. Len(att_values) |->
            IF \E i \in 1 .. num_points : mapped_index[i] = v
              THEN r.int_points[CHOOSE i \in 1 .. num_points : mapped_index[i] = v]
              ELSE att_values[v]]
    ELSE att_values

\* The attribute is reached through a const pointer and only read.
AttributeValuesAfter(r) == att_values

EncodeAttributes ==
  /\ pc = "ready"
  /\ LET r == EncodeOutcome
     IN  /\ out_buffer' = out_buffer \o r.appended
         /\ ret' = r.ret
         /\ codec' = r.codec
         /\ int_points' = r.int_points
         /\ att_values' = AttributeValuesAfter(r)
  /\ pc' = "done"
  /\ UNCHANGED <<num_attributes, components_count, data_type, speed,
                 quantization_bits, mapped_index, base, prev, decoded>>

\* The bytes the last call appended.
Appended == SubSeq(out_buffer, base + 1, Len(out_buffer))

\* The caller encodes the same attribute once more, into a buffer put back
\* to the state the first call started from.
EncodeAgain ==
  /\ pc = "done"
  /\ prev = None
  /\ prev' = [kind |-> "call", ret |-> ret, appended |-> Appended]
  /\ out_buffer' = SubSeq(out_buffer, 1, base)
  /\ pc' = "ready"
  /\ UNCHANGED <<num_attributes, components_count, data_type, speed,
                 quantization_bits, att_values, mapped_index, base, ret, codec,
                 int_points, decoded>>

(***************************************************************************)
(* The decoder (spec.md 2, 4.3 and 6): read the header, select the codec   *)
(* by the method identifier and the variant by the level, rebuild the      *)
(* points.                                                                 *)
(***************************************************************************)
DecodeStream(stream) ==
  IF Len(stream) < 6 THEN [ok |-> FALSE]
  ELSE LET method == stream[1]
           level == stream[2]
           n == DecodeUInt32(SubSeq(stream, 3, 6))
           payload == SubSeq(stream, 7, Len(stream))
           got == IF ~LevelInRange(level) THEN Corrupt
                  ELSE IF method = kKdTreeIntegerEncoding
                    THEN KdDecode(payload, n, Origin, FullRange(BitWidth), level)
                  ELSE IF method = kKdTreeQuantizationEncoding /\ payload # <<>>
                    THEN KdDecode(Tail(payload), n, Origin,
                                  FullRange(Head(payload)), level)
                  ELSE Corrupt
       IN  IF got.ok /\ got.rest = <<>>
             THEN [ok |-> TRUE, method |-> method, level |-> level,
                   num_points |-> n, pts |-> got.pts]
             ELSE [ok |-> FALSE]

DecodeAttributes ==
  /\ pc = "done"
  /\ ret = TRUE
  /\ decoded' = [kind |-> "stream"] @@ DecodeStream(Appended)
  /\ pc' = "decoded"
  /\ UNCHANGED <<num_attributes, components_count, data_type, speed,
                 quantization_bits, att_values, mapped_index, out_buffer, base,
                 ret, codec, int_points, prev>>

(***************************************************************************)
(* Initial states and specifications.                                      *)
(***************************************************************************)
Fits(values, w) == \A i \in 1 .. Len(values) : \A a \in Axes : values[i][a] < 2 ^ w

Fresh ==
  /\ base = Len(out_buffer)
  /\ pc = "ready"
  /\ ret = FALSE
  /\ codec = NoCodec
  /\ int_points = <<>>
  /\ prev = None
  /\ decoded = None

\* Every configuration of the dispatch, over a small point cloud.
Init ==
  /\ num_attributes \in 0 .. MaxAttributes
  /\ components_count \in ComponentCounts
  /\ data_type \in DataTypes
  /\ speed \in Speeds
  /\ quantization_bits \in QuantizationSettings
  /\ att_values \in SeqsUpTo(DispatchPool, DispatchPoints)
  /\ mapped_index = Identity(Len(att_values))
  /\ (IsFloatAttribute /\ quantization_bits > 0) => Fits(att_values, quantization_bits)
  /\ out_buffer \in {<<>>, <<170>>}
  /\ Fresh

\* One unsigned-integer position attribute at every valid speed, over every
\* point sequence of the pool, read through a mapping that is not the
\* identity.
InitCodec ==
  /\ num_attributes = 1
  /\ components_count = 3
  /\ data_type = "DT_UINT32"
  /\ speed \in ValidSpeeds
  /\ quantization_bits = -1
  /\ att_values \in SeqsUpTo(PointPool, MaxPoints)
  /\ mapped_index = Reversed(Len(att_values))
  /\ out_buffer = <<>>
  /\ Fresh

Next == EncodeAttributes \/ EncodeAgain \/ DecodeAttributes

Spec == Init /\ [][Next]_vars

SpecCodec == InitCodec /\ [][Next]_vars

(***************************************************************************)
(* Properties.                                                             *)
(***************************************************************************)
Returned == pc # "ready"

Count(p, s) == Cardinality({i \in 1 .. Len(s) : s[i] = p})

SameMultiset(s, t) ==
  /\ Len(s) = Len(t)
  /\ \A i \in 1 .. Len(s) : Count(s[i], s) = Count(s[i], t)

NothingAppended == Len(out_buffer) = base

PassesChecks ==
  /\ num_attributes = 1
  /\ components_count = 3
  /\ \/ data_type = "DT_UINT32"
     \/ data_type = "DT_FLOAT32" /\ quantization_bits > 0

\* C1: a call on an encoder that does not hold exactly one attribute, or
\* whose attribute has not 3 components, returns false, appends no byte and
\* invokes no codec, whatever the type, speed and quantization are.
C1_RejectsAttributeAndComponentCount ==
  (Returned /\ (num_attributes # 1 \/ components_count # 3))
    => (ret = FALSE /\ NothingAppended /\ codec = NoCodec)

C1_Witness ==
  /\ pc = "done"
  /\ num_attributes = 2
  /\ components_count = 3
  /\ data_type = "DT_UINT32"
  /\ speed = 5
  /\ ret = FALSE
  /\ out_buffer = <<170>>

\* C2: a single 3-component float attribute whose quantization bit count is
\* absent (-1) or not positive makes the call fail with no byte appended
\* and no point encoder invoked.
C2_RejectsMissingQuantization ==
  (Returned /\ num_attributes = 1 /\ components_count = 3
     /\ data_type = "DT_FLOAT32" /\ quantization_bits <= 0)
    => (ret = FALSE /\ NothingAppended /\ codec = NoCodec)

C2_Witness ==
  /\ pc = "done"
  /\ num_attributes = 1
  /\ components_count = 3
  /\ data_type = "DT_FLOAT32"
  /\ quantization_bits = 0
  /\ speed = 5
  /\ num_points = 2
  /\ ret = FALSE

\* C3: for every encoding speed whose level 10 - speed lies outside 0..10,
\* a call that passes the other checks returns false and appends no payload
\* byte after the header.
C3_OutOfRangeLevelRejected ==
  (Returned /\ PassesChecks /\ 10 - speed \notin 0 .. 10)
    => (ret = FALSE /\ Len(out_buffer) <= base + 6)

\* C4: a call that passes validation and succeeds has appended, in this
\* order, the method identifier (0 for float, 1 for unsigned integer), the
\* level 10 - speed, the 4-byte point count, and then the payload of the
\* codec, which was handed num_points points.
C4_HeaderFields ==
  (Returned /\ ret = TRUE)
    => /\ PassesChecks
       /\ Len(Appended) >= 6
       /\ Appended[1] = (IF data_type = "DT_FLOAT32" THEN 0 ELSE 1)
       /\ Appended[2] = 10 - speed
       /\ DecodeUInt32(SubSeq(Appended, 3, 6)) = num_points
       /\ Len(codec.input) = num_points

\* C5: decoding the stream of a successful call over unsigned integer
\* points gives back the same multiset of points, duplicates kept, and as
\* many points as the header's num_points field says.
C5_RoundTrip ==
  (pc = "decoded" /\ data_type = "DT_UINT32")
    => /\ decoded.ok
       /\ SameMultiset(decoded.pts, [i \in 1 .. num_points |-> att_values[mapped_index[i]]])
       /\ decoded.num_points = DecodeUInt32(SubSeq(Appended, 3, 6))
       /\ Len(decoded.pts) = decoded.num_points
       /\ decoded.level = (10 - speed) % 256

C5_Witness ==
  /\ pc = "decoded"
  /\ speed = 5
  /\ num_points = 4
  /\ mapped_index = Reversed(4)
  /\ att_values = <<<<0, 0, 0>>, <<1, 1, 1>>, <<0, 1, 0>>, <<1, 1, 1>>>>
  /\ decoded.ok
  /\ Count(<<1, 1, 1>>, decoded.pts) = 2

\* C6: the integer path hands the encoder a copy of the num_points values,
\* taken in point-index order through the mapping; only the copy is
\* reordered, and no step changes the attribute's values or its mapping.
C6_SourceUntouched ==
  /\ [](Returned /\ codec.kind = "integer"
          => /\ codec.input = [i \in 1 .. num_points |-> att_values[mapped_index[i]]]
             /\ SameMultiset(int_points, codec.input))
  /\ [][att_values' = att_values /\ mapped_index' = mapped_index]_vars

C6_Witness ==
  /\ pc = "done"
  /\ codec.kind = "integer"
  /\ num_points = 3
  /\ mapped_index = Reversed(3)
  /\ int_points # codec.input
  /\ att_values = <<<<0, 1, 0>>, <<0, 0, 0>>, <<1, 0, 0>>>>

C8_RejectsOtherTypes ==
  /\ (Returned /\ num_attributes = 1 /\ components_count = 3
        /\ data_type \notin {"DT_FLOAT32", "DT_UINT32"})
       => (ret = FALSE /\ NothingAppended /\ codec = NoCodec)
  /\ (Returned /\ ret = TRUE) => data_type \in {"DT_FLOAT32", "DT_UINT32"}

C8_Witness ==
  /\ pc = "done"
  /\ num_attributes = 1
  /\ components_count = 3
  /\ data_type = "DT_INT32"
  /\ speed = 0
  /\ quantization_bits = 2
  /\ num_points = 1
  /\ ret = FALSE

\* C9: the codec a call runs is the variant of the level byte it wrote in
\* the header: the integer path runs the variant of that level, a level in
\* 0..10, under method 1, and the float path constructs its encoder with
\* that level under method 0; a successful call has run a codec.
C9_VariantOfHeaderLevel ==
  /\ (Returned /\ codec.kind # "none")
       => /\ Len(Appended) >= 6
          /\ codec.level = Appended[2]
          /\ codec.kind = "integer" => (codec.level \in 0 .. 10 /\ Appended[1] = 1)
          /\ codec.kind = "float" => Appended[1] = 0
  /\ (Returned /\ ret = TRUE) => codec.kind # "none"

C9_Witness ==
  /\ pc = "done"
  /\ codec.kind = "integer"
  /\ codec.level = 9
  /\ Appended[2] = 9
  /\ ret = TRUE

\* C10: a failing call has appended nothing or the complete 6-byte header
\* first; a failing float call has appended nothing or exactly the header;
\* a successful call has appended the header and the complete payload.
C10_OutputOfFailingCall ==
  LET header == SubSeq(Appended, 1, 6)
      wellFormed ==
        /\ Len(Appended) >= 6
        /\ header[1] = (IF data_type = "DT_FLOAT32" THEN 0 ELSE 1)
        /\ header[2] = (10 - speed) % 256
        /\ DecodeUInt32(SubSeq(header, 3, 6)) = num_points
      payload == SubSeq(Appended, 7, Len(Appended))
  IN  Returned =>
        /\ ret = FALSE => (NothingAppended \/ wellFormed)
        /\ (ret = FALSE /\ data_type = "DT_FLOAT32")
             => (NothingAppended \/ (wellFormed /\ Len(Appended) = 6))
        /\ ret = TRUE
             => /\ wellFormed
                /\ codec.kind = "integer"
                     => payload = EncodePoints(codec.level, codec.input).payload
                /\ codec.kind = "float"
                     => LET enc == EncodePointCloud(codec.qbits, codec.level, codec.input)
                        IN  enc.ok /\ payload = enc.buffer

C10_Witness ==
  /\ pc = "done"
  /\ data_type = "DT_FLOAT32"
  /\ quantization_bits = 2
  /\ speed = -1
  /\ ret = FALSE
  /\ Len(Appended) = 6
  /\ num_points = 2

====
